---- MODULE Spec2Model ----
(***************************************************************************)
(* Ekaksh (src/app/app.py): a Streamlit script that registers users in a   *)
(* SQLite table through SQLAlchemy, logs them in with bcrypt, and forwards *)
(* queries of logged-in sessions to a LangChain agent.                     *)
(*                                                                         *)
(* Streamlit re-runs the whole script on every interaction of a browser    *)
(* session; one action of the model is one such script run.  `last` holds  *)
(* the inputs of the most recent run and everything it rendered.           *)
(***************************************************************************)
EXTENDS Integers, Sequences, FiniteSets, TLC

\* ------------------------------------------------------------- bounds
\* Rows the table may hold before Register stops being explored.
MaxUsers == 2

\* The browser sessions, and the salts bcrypt.gensalt() may draw.
Sessions == {"s1", "s2"}
Salts == {"saltA", "saltB"}

\* Values typed into the text inputs.
Usernames == {"", "alice", "Alice"}
Passwords == {"", "secret"}
Queries == {"", " ", "code", "CoDe", "decode", "cod e", "Script x",
            "a FUNCTION", "func", "2+2"}
\* The smaller choice used where the accounts, not the queries, are explored.
FewQueries == {"", "2+2"}
OneUsername == {"alice"}
TwoUsernames == {"alice", "Alice"}
OnePassword == {"secret"}

\* What assistant_agent.run may do: return a text, or raise.
Replies == {[raised |-> FALSE, text |-> "4"],
            [raised |-> FALSE, text |-> " def f(): pass\n"],
            [raised |-> TRUE, text |-> "APIConnectionError"]}

VARIABLES
    users,          \* the rows of table `users`, in insertion order
    session_state,  \* st.session_state of every browser session
    pending,        \* a register run between its lookup and its commit
    last,           \* the most recent script run: inputs and what it rendered
    registered,     \* history: the successful registrations, in order
    verified        \* history: usernames check_password accepted, per session

vars == <<users, session_state, pending, last, registered, verified>>

\* ------------------------------------------------------------- bcrypt
\* bcrypt.hashpw: the hash carries its salt; the digest is a one-way,
\* collision-free function of (salt, password), kept symbolic.
bcrypt_hashpw(password, salt) ==
    [salt |-> salt, digest |-> <<"bcrypt", salt, password>>]

hash_password(password, salt) == bcrypt_hashpw(password, salt)

\* A slip: verifying against a fresh default salt instead of the stored one.
check_password_fixed_salt(hashed_password, password) ==
    bcrypt_hashpw(password, "saltA") = hashed_password

\* bcrypt.checkpw re-hashes the candidate with the salt of the stored hash.
check_password(hashed_password, password) ==
    bcrypt_hashpw(password, hashed_password.salt) = hashed_password

\* ------------------------------------------------------------- table users
\* session.query(User).filter_by(username=username).first(): the index of
\* the first row whose username is exactly `username`, 0 when there is none.
query_first(rows, username) ==
    LET hits == {i \in 1..Len(rows) : rows[i].username = username}
    IN  IF hits = {} THEN 0 ELSE CHOOSE i \in hits : \A j \in hits : i <= j

\* username = Column(String, unique=True, nullable=False): the INSERT of a
\* username that is already there fails with IntegrityError.
unique_ok(rows, username) ==
    \A i \in 1..Len(rows) : rows[i].username # username

\* session.add(new_user); session.commit(): id is assigned by the table.
insert_user(rows, username, hashed_password) ==
    Append(rows, [id |-> Len(rows) + 1, username |-> username,
                  password |-> hashed_password])

\* ------------------------------------------------------------- session state
Keys == {"logged_in", "username"}
NoState == [keys |-> {}, logged_in |-> FALSE, username |-> ""]

\* if "logged_in" not in st.session_state: st.session_state["logged_in"] = False
start(ss) ==
    IF "logged_in" \in ss.keys THEN ss
    ELSE [ss EXCEPT !.keys = @ \cup {"logged_in"}, !.logged_in = FALSE]

\* A slip: the flag is set and the username is not.
mark_authenticated_flag_only(ss, username) ==
    [ss EXCEPT !.keys = @ \cup {"logged_in"}, !.logged_in = TRUE]

\* st.session_state["logged_in"] = True; st.session_state["username"] = username
mark_authenticated(ss, username) ==
    [keys |-> ss.keys \cup {"logged_in", "username"},
     logged_in |-> TRUE, username |-> username]

\* A slip: the assistant page rendered whatever the flag says.
page_ungated(ss) == "assistant"

\* App logic: which page the script renders for a session.
page(ss) == IF ~start(ss).logged_in THEN "auth" ELSE "assistant"

\* ------------------------------------------------------------- messages
MsgMismatch == "Passwords do not match!"
MsgExists == "Username already exists! Please choose another one."
MsgRegistered == "Registration successful! Please log in."
MsgLoggedIn == "Login successful!"
MsgInvalid == "Invalid username or password"
MsgEmptyQuery == "Please enter a valid query"
CodePrefix == "Generate code for the following task: "
MathPrefix == "Solve this math problem: "

\* ------------------------------------------------------------- a script run
NoRun == [op |-> "none", session |-> "", username |-> "", password |-> "",
          confirm |-> "", query |-> "", authed |-> FALSE, found |-> FALSE,
          calls |-> <<>>, returned |-> "", kind |-> "none", text |-> ""]

Idle == [busy |-> FALSE, username |-> "", password |-> "",
         hashed |-> bcrypt_hashpw("", "")]

Init ==
    /\ users = <<>>
    /\ session_state = [s \in Sessions |-> start(NoState)]
    /\ pending = [s \in Sessions |-> Idle]
    /\ last = NoRun
    /\ registered = <<>>
    /\ verified = [s \in Sessions |-> {}]

\* The shape of the state: users is the table of class User, session_state
\* the st.session_state of each session, pending a register run under way.
TypeOK ==
    /\ \A i \in 1..Len(users) :
           /\ users[i].id = i
           /\ users[i].username \in Usernames
           /\ \E p \in Passwords, salt \in Salts :
                  users[i].password = bcrypt_hashpw(p, salt)
    /\ \A s \in Sessions :
           /\ session_state[s].keys \subseteq Keys
           /\ session_state[s].logged_in \in BOOLEAN
           /\ session_state[s].username \in Usernames
           /\ pending[s].busy \in BOOLEAN
    /\ last.kind \in {"none", "running", "success", "error", "warning",
                      "exception", "link"}

\* A session accepts a click when no run of it is under way.
rendered(s) == ~pending[s].busy

\* History: the table holds a row for exactly this username.
has_record(username) == \E i \in 1..Len(users) : users[i].username = username

Run(op, s) == [NoRun EXCEPT !.op = op, !.session = s,
                            !.authed = start(session_state[s]).logged_in]

\* A run in which no button was clicked (page load, typing).
open_page(s) ==
    /\ rendered(s)
    /\ session_state' = [session_state EXCEPT ![s] = start(@)]
    /\ last' = Run("open", s)
    /\ UNCHANGED <<users, pending, registered, verified>>

\* ------------------------------------------------------------- register_user
\* A slip: no lookup before the insert.
register_branch_no_lookup(rows, username, password, confirm_password) ==
    IF password # confirm_password THEN "mismatch" ELSE "insert"

\* The branch the Register button takes, from the lookup it makes.
register_branch(rows, username, password, confirm_password) ==
    IF password # confirm_password THEN "mismatch"
    ELSE IF query_first(rows, username) # 0 THEN "exists"
    ELSE "insert"

\* What a run that got no further than its checks renders.
register_rejected(run, branch) ==
    [run EXCEPT !.kind = "error",
                !.text = IF branch = "mismatch" THEN MsgMismatch ELSE MsgExists]

\* session.add; session.commit; st.success.  The table's UNIQUE constraint
\* makes the commit raise when the username got a row in the meantime; the
\* script does not catch it.
register_commit_effect(run, username, password, hashed) ==
    IF unique_ok(users, username)
    THEN /\ users' = insert_user(users, username, hashed)
         /\ registered' = Append(registered, [username |-> username,
                                 password |-> password, hashed |-> hashed])
         /\ last' = [run EXCEPT !.kind = "success", !.text = MsgRegistered]
    ELSE /\ last' = [run EXCEPT !.kind = "exception", !.text = "IntegrityError"]
         /\ UNCHANGED <<users, registered>>

RegisterRun(s, username, password, confirm_password) ==
    [Run("register", s) EXCEPT !.username = username, !.password = password,
                               !.confirm = confirm_password,
                               !.found = has_record(username)]

\* The Register button, handled to completion (one run at a time).
register_user(s, username, password, confirm_password, salt) ==
    /\ rendered(s)
    /\ page(session_state[s]) = "auth"
    /\ Len(users) < MaxUsers \/ has_record(username)
                             \/ password # confirm_password
    /\ LET branch == register_branch(users, username, password, confirm_password)
           run == RegisterRun(s, username, password, confirm_password)
       IN  IF branch = "insert"
           THEN register_commit_effect(run, username, password,
                                       hash_password(password, salt))
           ELSE /\ last' = register_rejected(run, branch)
                /\ UNCHANGED <<users, registered>>
    /\ UNCHANGED <<session_state, pending, verified>>

\* The same button when runs of several sessions interleave: first the
\* lookup and the hashing ...
register_check(s, username, password, confirm_password, salt) ==
    /\ rendered(s)
    /\ page(session_state[s]) = "auth"
    /\ Len(users) < MaxUsers \/ has_record(username)
                             \/ password # confirm_password
    /\ LET branch == register_branch(users, username, password, confirm_password)
           run == RegisterRun(s, username, password, confirm_password)
       IN  IF branch = "insert"
           THEN /\ pending' = [pending EXCEPT ![s] =
                       [busy |-> TRUE, username |-> username,
                        password |-> password,
                        hashed |-> hash_password(password, salt)]]
                /\ last' = [run EXCEPT !.kind = "running"]
           ELSE /\ last' = register_rejected(run, branch)
                /\ UNCHANGED pending
    /\ UNCHANGED <<users, session_state, registered, verified>>

\* ... then the insert and the commit.
register_commit(s) ==
    /\ pending[s].busy
    /\ register_commit_effect(
           [RegisterRun(s, pending[s].username, pending[s].password,
                        pending[s].password) EXCEPT !.found = FALSE],
           pending[s].username, pending[s].password, pending[s].hashed)
    /\ pending' = [pending EXCEPT ![s] = Idle]
    /\ UNCHANGED <<session_state, verified>>

\* ------------------------------------------------------------- login_user
\* user = ...first(); if user and check_password(user.password, password)
login_ok(rows, username, password) ==
    LET i == query_first(rows, username)
    IN  i # 0 /\ check_password(rows[i].password, password)

\* A slip: a message of its own for an unknown username.
login_message_leaky(rows, username, password) ==
    IF query_first(rows, username) = 0
    THEN [kind |-> "error", text |-> "No such user"]
    ELSE IF check_password(rows[query_first(rows, username)].password, password)
    THEN [kind |-> "success", text |-> MsgLoggedIn]
    ELSE [kind |-> "error", text |-> MsgInvalid]

\* What the Login button renders.
login_message(rows, username, password) ==
    IF login_ok(rows, username, password)
    THEN [kind |-> "success", text |-> MsgLoggedIn]
    ELSE [kind |-> "error", text |-> MsgInvalid]

login_user(s, username, password) ==
    /\ rendered(s)
    /\ page(session_state[s]) = "auth"
    /\ LET ok == login_ok(users, username, password)
           msg == login_message(users, username, password)
       IN  /\ last' = [Run("login", s) EXCEPT
                          !.username = username, !.password = password,
                          !.found = has_record(username),
                          !.kind = msg.kind, !.text = msg.text]
           /\ session_state' = [session_state EXCEPT ![s] =
                  IF ok THEN mark_authenticated(start(@), username) ELSE start(@)]
           /\ verified' = [verified EXCEPT ![s] =
                  IF ok THEN @ \cup {username} ELSE @]
    /\ UNCHANGED <<users, pending, registered>>

\* ------------------------------------------------------------- assistant_interface
Upper == "A" :> "a" @@ "B" :> "b" @@ "C" :> "c" @@ "D" :> "d" @@ "E" :> "e"
      @@ "F" :> "f" @@ "G" :> "g" @@ "H" :> "h" @@ "I" :> "i" @@ "J" :> "j"
      @@ "K" :> "k" @@ "L" :> "l" @@ "M" :> "m" @@ "N" :> "n" @@ "O" :> "o"
      @@ "P" :> "p" @@ "Q" :> "q" @@ "R" :> "r" @@ "S" :> "s" @@ "T" :> "t"
      @@ "U" :> "u" @@ "V" :> "v" @@ "W" :> "w" @@ "X" :> "x" @@ "Y" :> "y"
      @@ "Z" :> "z"

\* str.lower()
RECURSIVE lower(_)
lower(str) ==
    IF Len(str) = 0 THEN ""
    ELSE LET c == SubSeq(str, 1, 1)
         IN  (IF c \in DOMAIN Upper THEN Upper[c] ELSE c)
             \o lower(SubSeq(str, 2, Len(str)))

\* needle in str
contains(str, needle) ==
    \E i \in 1..(Len(str) - Len(needle) + 1) :
        SubSeq(str, i, i + Len(needle) - 1) = needle

\* A slip: the keywords looked up in the query as typed.
is_code_case_sensitive(query) ==
    \/ contains(query, "code")
    \/ contains(query, "function")
    \/ contains(query, "script")

\* "code" in query.lower() or "function" in query.lower() or ...
is_code(query) ==
    \/ contains(lower(query), "code")
    \/ contains(lower(query), "function")
    \/ contains(lower(query), "script")

\* The f-string handed to assistant_agent.run.
prompt_for(query) ==
    IF is_code(query) THEN CodePrefix \o query ELSE MathPrefix \o query

\* if query: (the truth value of a Python string)
truthy(query) == Len(query) > 0

\* The Get Answer button.  The welcome line reads session_state["username"]
\* first; the agent's exception, if any, leaves the script uncaught.
submit_query(s, query, reply) ==
    /\ rendered(s)
    /\ page(session_state[s]) = "assistant"
    /\ LET run == [Run("submit_query", s) EXCEPT !.query = query]
       IN  last' =
             IF "username" \notin session_state[s].keys
             THEN [run EXCEPT !.kind = "exception", !.text = "KeyError"]
             ELSE IF ~truthy(query)
             THEN [run EXCEPT !.kind = "warning", !.text = MsgEmptyQuery]
             ELSE IF reply.raised
             THEN [run EXCEPT !.calls = <<prompt_for(query)>>,
                              !.kind = "exception", !.text = reply.text]
             ELSE [run EXCEPT !.calls = <<prompt_for(query)>>,
                              !.returned = reply.text,
                              !.kind = "success", !.text = reply.text]
    /\ UNCHANGED <<users, session_state, pending, registered, verified>>

\* The Go to Veriface button.
go_to_veriface(s) ==
    /\ rendered(s)
    /\ page(session_state[s]) = "assistant"
    /\ last' = IF "username" \notin session_state[s].keys
               THEN [Run("veriface", s) EXCEPT !.kind = "exception",
                                                !.text = "KeyError"]
               ELSE [Run("veriface", s) EXCEPT !.kind = "link",
                         !.text = "[Go to Veriface](https://veriface.streamlit.app)"]
    /\ UNCHANGED <<users, session_state, pending, registered, verified>>

\* ------------------------------------------------------------- specifications
\* Every user action is handled to completion before the next is accepted.
Next ==
    \/ \E s \in Sessions : open_page(s)
    \/ \E s \in Sessions, u \in Usernames, p \in Passwords, c \in Passwords,
          salt \in Salts : register_user(s, u, p, c, salt)
    \/ \E s \in Sessions, u \in Usernames, p \in Passwords : login_user(s, u, p)
    \/ \E s \in Sessions, q \in FewQueries, r \in Replies : submit_query(s, q, r)
    \/ \E s \in Sessions : go_to_veriface(s)

Spec == Init /\ [][Next]_vars

\* The same, with one account and every query.
NextAsk ==
    \/ \E s \in Sessions : open_page(s)
    \/ \E s \in Sessions, u \in OneUsername, p \in OnePassword, c \in OnePassword,
          salt \in Salts : register_user(s, u, p, c, salt)
    \/ \E s \in Sessions, u \in OneUsername, p \in OnePassword : login_user(s, u, p)
    \/ \E s \in Sessions, q \in Queries, r \in Replies : submit_query(s, q, r)
    \/ \E s \in Sessions : go_to_veriface(s)

SpecAsk == Init /\ [][NextAsk]_vars

\* Script runs of different sessions interleave between a register run's
\* lookup and its commit.
NextConc ==
    \/ \E s \in Sessions : open_page(s)
    \/ \E s \in Sessions, u \in TwoUsernames, p \in Passwords, c \in Passwords,
          salt \in Salts : register_check(s, u, p, c, salt)
    \/ \E s \in Sessions : register_commit(s)
    \/ \E s \in Sessions, u \in TwoUsernames, p \in Passwords : login_user(s, u, p)

SpecConc == Init /\ [][NextConc]_vars
\* ------------------------------------------------------------- properties
Rows(username) == {i \in 1..Len(users) : users[i].username = username}
FirstRegistration(username) ==
    LET ks == {k \in 1..Len(registered) : registered[k].username = username}
    IN  registered[CHOOSE k \in ks : \A j \in ks : k <= j]
RegisteredWith(username, password) ==
    \E k \in 1..Len(registered) :
        registered[k].username = username /\ registered[k].password = password

\* C1: register(u, p, p) of a username without a record succeeds and creates
\* its record, and every later login(u, p), in any session and after any
\* other runs, succeeds and leaves that session authenticated as u.
C1_RegisterThenLogin ==
    /\ (last.op = "register" /\ last.password = last.confirm /\ ~last.found)
         => /\ last.kind = "success"
            /\ Rows(last.username) # {}
            /\ RegisteredWith(last.username, last.password)
    /\ \A k \in 1..Len(registered) : Rows(registered[k].username) # {}
    /\ (last.op = "login" /\ RegisteredWith(last.username, last.password))
         => /\ last.kind = "success"
            /\ session_state[last.session].logged_in
            /\ "username" \in session_state[last.session].keys
            /\ session_state[last.session].username = last.username

\* C1 witness: a login with the registered credentials of the first
\* account, made in the other session after further runs, has succeeded.
C1_Witness ==
    /\ last.op = "login" /\ last.session = "s2" /\ last.kind = "success"
    /\ Len(users) = 2 /\ users[1].username = last.username
    /\ RegisteredWith(last.username, last.password)
    /\ session_state["s2"].username = last.username
    /\ session_state["s1"].logged_in

\* C2: a second registration of a username is refused with the duplicate
\* message whatever its password; the table keeps one row per exact
\* username, holding the hash of the first registration.
C2_DuplicateUsernameRefused ==
    /\ (last.op = "register" /\ last.password = last.confirm /\ last.found)
         => last.kind = "error" /\ last.text = MsgExists
    /\ \A i, j \in 1..Len(users) :
           users[i].username = users[j].username => i = j
    /\ Len(users) = Len(registered)
    /\ \A i \in 1..Len(users) :
           /\ RegisteredWith(users[i].username,
                             FirstRegistration(users[i].username).password)
           /\ users[i].password = FirstRegistration(users[i].username).hashed

\* C2 witness: a second registration, with another password than the first,
\* has been refused, while a username differing only in case has its own row.
C2_Witness ==
    /\ last.op = "register" /\ last.found /\ last.password = last.confirm
    /\ last.kind = "error" /\ last.text = MsgExists
    /\ ~RegisteredWith(last.username, last.password)
    /\ Cardinality(Rows(last.username)) = 1
    /\ Rows("alice") # {} /\ Rows("Alice") # {}

\* C3: when two sessions register the same unused username concurrently,
\* lookup and insert act as one atomic unit: one attempt succeeds, the other
\* is refused with the duplicate message, and no username has two rows.
C3_AtomicCreate ==
    /\ \A i, j \in 1..Len(users) :
           users[i].username = users[j].username => i = j
    /\ (last.op = "register" /\ last.kind # "running")
         => \/ last.kind = "success"
            \/ last.kind = "error" /\ last.text \in {MsgMismatch, MsgExists}

\* C4: a failed login renders the same outcome whether the username has no
\* record or the password does not verify against the stored hash.
C4_LoginFailuresIndistinguishable ==
    /\ (last.op = "login" /\ last.kind # "success")
         => /\ last.kind = "error" /\ last.text = MsgInvalid
            /\ ~session_state[last.session].logged_in
    /\ \A u1, u2 \in Usernames, p1, p2 \in Passwords :
           (~login_ok(users, u1, p1) /\ ~login_ok(users, u2, p2))
             => login_message(users, u1, p1) = login_message(users, u2, p2)

\* C4 witness: a login against an existing record has failed on the
\* password, in a table where another username has no record at all.
C4_Witness ==
    /\ last.op = "login" /\ last.found /\ last.kind = "error"
    /\ \E u \in Usernames : ~has_record(u)

\* C5: a failed assistant call is recovered and rendered to the user as a
\* message of the application (the assistant having been called once), so
\* that no run ends in an exception the script did not handle.
C5_AssistantFailureSurfaced ==
    (last.op = "submit_query" /\ last.calls # <<>>)
      => Len(last.calls) = 1 /\ last.kind \in {"success", "error", "warning"}

\* str.isspace() or empty: nothing but blanks.
IsBlank(query) == \A i \in 1..Len(query) : SubSeq(query, i, i) \in {" ", "\t", "\n"}

\* C6: an empty or whitespace-only query is refused with the empty-query
\* message: no assistant call is made and no answer is shown.
C6_BlankQueryRejected ==
    (last.op = "submit_query" /\ IsBlank(last.query))
      => last.calls = <<>> /\ last.kind = "warning" /\ last.text = MsgEmptyQuery

\* The queries of the model that hold "code", "function" or "script" in any
\* letter case, listed by hand.
KeywordQueries == {"code", "CoDe", "decode", "Script x", "a FUNCTION"}

\* C7: a non-empty query goes to the assistant once, as "Generate code for
\* the following task: " + q when q holds a keyword in any letter case and
\* as "Solve this math problem: " + q otherwise, and the assistant's text is
\* shown as returned.
C7_Routing ==
    (last.op = "submit_query" /\ last.query # "")
      => /\ Len(last.calls) = 1
         /\ last.calls[1] = (IF last.query \in KeywordQueries
                             THEN "Generate code for the following task: "
                             ELSE "Solve this math problem: ") \o last.query
         /\ (last.kind = "success" => last.text = last.returned)
         /\ (last.kind # "success" => last.kind = "exception")

\* C7 witness: an upper-case keyword has been routed as a code task and the
\* assistant's text, blanks and all, has been shown.
C7_Witness ==
    /\ last.op = "submit_query" /\ last.query = "a FUNCTION"
    /\ last.calls = <<"Generate code for the following task: a FUNCTION">>
    /\ last.kind = "success" /\ last.text = " def f(): pass\n"

\* C8: no row of the table has the empty string as its username.
C8_UsernamesNonEmpty ==
    \A i \in 1..Len(users) : users[i].username # ""

\* C9: a session starts unauthenticated and only a successful login changes
\* it, setting flag and username together: the username is defined exactly
\* when the flag is set, has a record, was verified in this session, and a
\* session once verified stays authenticated.
C9_SessionState ==
    \A s \in Sessions :
        LET ss == session_state[s] IN
        /\ "logged_in" \in ss.keys
        /\ ss.logged_in <=> "username" \in ss.keys
        /\ ss.logged_in <=> verified[s] # {}
        /\ ss.logged_in => verified[s] = {ss.username} /\ has_record(ss.username)
        /\ (last.session = s /\ ~(last.op = "login" /\ last.kind = "success"))
             => ss.logged_in = last.authed

\* C9 witness: a session authenticated as the second account is still so
\* after a query, a failed login and a registration elsewhere.
C9_Witness ==
    /\ session_state["s1"].logged_in /\ session_state["s1"].username = "Alice"
    /\ last.op = "submit_query" /\ last.session = "s1"
    /\ ~session_state["s2"].logged_in
    /\ Len(users) = 2

\* C10: the assistant is called only by a session that is authenticated at
\* the time, by a login of its own; the assistant page is not served to an
\* unauthenticated session.
C10_AssistantGated ==
    /\ last.calls # <<>>
         => /\ last.authed
            /\ session_state[last.session].logged_in
            /\ verified[last.session] # {}
    /\ last.op \in {"submit_query", "veriface"} => last.authed
    /\ \A s \in Sessions : session_state[s].logged_in => verified[s] # {}

\* C10 witness: one session has had its query answered while the other one,
\* not logged in, has not been authenticated by it.
C10_Witness ==
    /\ last.op = "submit_query" /\ last.calls # <<>> /\ last.session = "s1"
    /\ last.authed
    /\ ~session_state["s2"].logged_in /\ verified["s2"] = {}
====
